---- MODULE Spec2Model ----
(***************************************************************************)
(* A model of src/ds5.cpp: the ds5_camera device (its constructor, the     *)
(* lazily fetched calibration tables and the calls that force them) and    *)
(* the hardware-backed auto-exposure ROI method.                           *)
(***************************************************************************)
EXTENDS Integers, Sequences, FiniteSets, TLC

VARIABLES
    dev,        \* dev[d]: the ds5_camera object d (see NoDevice / Ctor)
    calls,      \* number of device calls made after construction
    hist,       \* hist[d]: the results the calls on device d returned so far
    thr,        \* thr[t]: the position of thread t inside a call
    mtx,        \* mtx[d][L]: the holder of lazy L's mutex (0: free)
    roiRet,     \* the last result of ds5_auto_exposure_roi_method::get
    hwRoi,      \* the ROI held by the hardware and a set / get sequence on it
    roiThr,     \* roiThr[t]: thread t inside a hardware ROI set or get
    swRoi,      \* the fisheye_auto_exposure_roi_method object and its user
    note,       \* the last notification decoded
    mdRet,      \* the last metadata parser applied and what it returned
    posRet,     \* a motion-module calibration and the poses computed from it
    swThr       \* swThr[t]: thread t inside a software ROI set

\* the state outside the device object and its calibration calls
auxVars == <<hwRoi, roiThr, swRoi, note, mdRet, posRet, swThr>>

vars == <<dev, calls, hist, thr, mtx, roiRet, auxVars>>

----------------------------------------------------------------------------
(* Bounds of the model *)

\* device calls made after a construction
MaxCalls == 3
\* sub-interfaces with mi = 3 that the enumeration may report
MaxMi3 == 2
\* HID sub-interfaces that the enumeration may report
MaxHid == 2
\* threads that call into one device concurrently
NumThreads == 2
\* bytes in a GETAEROI response
MaxRespLen == 9
\* largest magnitude of the notification codes tried one by one
MaxCode == 64
\* bytes in a metadata buffer
MaxMdLen == 144

----------------------------------------------------------------------------
(* Product ids, firmware versions, streams *)

FisheyePids == {"RS430_MM", "RS420_MM"}
ColorPids == {"RS415", "RS430_MM_RGB", "RS435_RGB"}
EmitterPids == {"RS410", "RS430_MM", "RS430", "RS430_MM_RGB", "RS435_RGB"}
AutoWbPids == {"RS400", "RS400_MM", "RS410", "RS410_MM", "RS415"}
ProjectorTempPids == {"RS410", "RS430_MM", "RS430"}
ColorInfoPids == {"RS415", "RS435_RGB"}
Pids == FisheyePids \cup ColorPids \cup EmitterPids \cup AutoWbPids

\* firmware_version: major.minor.patch.build
FwVersions ==
    { <<4,9,9,9>>, <<5,4,9,0>>, <<5,5,7,0>>, <<5,5,7,9>>, <<5,5,8,0>>,
      <<5,6,0,0>>, <<5,6,2,9>>, <<5,6,3,0>>, <<6,0,0,0>> }

\* firmware_version::operator>= : field by field, major first
FwGE(a, b) ==
    \/ a = b
    \/ \E i \in 1..4 : /\ a[i] > b[i]
                       /\ \A j \in 1..(i-1) : a[j] = b[j]

Fw563 == <<5,6,3,0>>
Fw558 == <<5,5,8,0>>
Fw560 == <<5,6,0,0>>

\* the value of an endpoint index that was never assigned
NoIdx == -1

----------------------------------------------------------------------------
(* The lazy<T> members and the commands their initializers send *)

LazyNames == {"coefficients", "fisheye_intrinsics", "fisheye_extrinsics",
              "mm_extrinsics", "accel_intrinsics", "gyro_intrinsics"}
MotionLazies == {"mm_extrinsics", "accel_intrinsics", "gyro_intrinsics"}
CalCmds == {"GETINTCAL", "MMER_84", "MMER_134", "GET_EXTRINSICS"}

\* a response of the command channel to a calibration command:
\*   kind "fail": send() throws; "short": too few bytes; "badcrc": bytes that
\*   fail validation; "ok": well-formed table number id
Resp(kind, id) == [kind |-> kind, id |-> id]
TableIds == {1, 2}
CalResps == {Resp("fail", 0), Resp("short", 0), Resp("badcrc", 0)}
              \cup {Resp("ok", i) : i \in TableIds}

\* content of the well-formed tables the hardware may hold
Resolutions == {<<640,480>>, <<1280,720>>}
TableRes(id) == IF id = 1 THEN {<<640,480>>, <<1280,720>>} ELSE {<<640,480>>}
TableBaseline(id) == IF id = 1 THEN 50 ELSE 55

Unevaluated == [st |-> "uneval", kind |-> "none", id |-> 0]


----------------------------------------------------------------------------
(* The device object *)

NoDevice ==
    [ phase |-> "none", err |-> "none",
      pid |-> "", n3 |-> 0, hid |-> 0, usb |-> FALSE,
      fw |-> <<0,0,0,0>>, advanced_mode |-> FALSE,
      is_camera_locked |-> "", motion_module_fw_version |-> "",
      endpoints |-> <<>>,
      fisheye_idx |-> NoIdx, motion_idx |-> NoIdx, color_idx |-> NoIdx,
      options |-> {}, formats |-> {}, roi_method |-> {}, pose |-> {},
      info |-> {}, hid_profiles |-> {}, polling |-> FALSE, metadata |-> {},
      lazy |-> [L \in LazyNames |-> Unevaluated],
      sent |-> [L \in LazyNames |-> 0],
      cmds |-> [c \in CalCmds |-> 0],
      ctorSent |-> [L \in LazyNames |-> 0] ]

Throw(s, e) == [s EXCEPT !.err = e]
Running(s) == s.err = "none"

\* endpoint::register_option: a later registration of an id replaces the former
RegisterOption(s, ep, id, kind) ==
    [s EXCEPT !.options = {o \in @ : ~(o.ep = ep /\ o.id = id)}
                            \cup {[ep |-> ep, id |-> id, kind |-> kind]}]

RegisterFormats(s, ep, fmts) ==
    [s EXCEPT !.formats = @ \cup {<<ep, f>> : f \in fmts}]

\* endpoint::set_pose / set_roi_method: the last one set stands
SetPose(s, ep, kind) ==
    [s EXCEPT !.pose = {p \in @ : p[1] # ep} \cup {<<ep, kind>>}]

SetRoiMethod(s, ep, kind) ==
    [s EXCEPT !.roi_method = {p \in @ : p[1] # ep} \cup {<<ep, kind>>}]

\* device::add_endpoint: the new endpoint's index is the count before it
AddEndpoint(s, name) == [s EXCEPT !.endpoints = Append(@, name)]
EndpointsCount(s) == Len(s.endpoints)

RegisterEndpointInfo(s, idx, module, bus, n, keys) ==
    [s EXCEPT !.info = @ \cup {[idx |-> idx, module |-> module, bus |-> bus,
                                n |-> n, keys |-> keys]}]

----------------------------------------------------------------------------
(* lazy<T> and the initializers the constructor gives the six members *)

\* the command an initializer sends
ThunkCmd(L) ==
    CASE L = "coefficients"       -> "GETINTCAL"
      [] L = "fisheye_intrinsics" -> "MMER_84"
      [] L = "fisheye_extrinsics" -> "GET_EXTRINSICS"
      [] OTHER                    -> "MMER_134"

\* get_raw_calibration_table, get_raw_fisheye_intrinsics_table,
\* get_raw_fisheye_extrinsics_table: whatever bytes send() returns
RawTableOutcome(resp) ==
    IF resp.kind = "fail"
    THEN [st |-> "failed", kind |-> "calib_transport", id |-> 0]
    ELSE [st |-> "ok", kind |-> resp.kind, id |-> resp.id]

\* get_motion_module_calibration_table: size check, then check_calib
MotionTableOutcome(resp) ==
    CASE resp.kind = "fail"   -> [st |-> "failed", kind |-> "calib_transport", id |-> 0]
      [] resp.kind = "short"  -> [st |-> "failed", kind |-> "calib_short", id |-> 0]
      [] resp.kind = "badcrc" -> [st |-> "failed", kind |-> "calib_invalid", id |-> 0]
      [] OTHER                -> [st |-> "ok", kind |-> "ok", id |-> resp.id]

\* the initializers assigned at construction
ThunkOutcome(L, resp) ==
    IF L \in MotionLazies THEN MotionTableOutcome(resp) ELSE RawTableOutcome(resp)

\* an initializer that sends its command a second time
RunThunkAgain(s, L, resp) ==
    [s EXCEPT !.lazy[L] = ThunkOutcome(L, resp),
              !.sent[L] = @ + 2,
              !.cmds[ThunkCmd(L)] = @ + 2]

\* running an initializer: one command, then the outcome is stored
RunThunk(s, L, resp) ==
    [s EXCEPT !.lazy[L] = ThunkOutcome(L, resp),
              !.sent[L] = @ + 1,
              !.cmds[ThunkCmd(L)] = @ + 1]

\* lazy<T>::operator* : the first access runs the initializer, later ones
\* return (or raise again) what the first one left
Force(s, L, resp) ==
    IF s.lazy[L].st = "uneval" THEN RunThunk(s, L, resp) ELSE s

\* a call site that fetches the table itself instead of going through the
\* lazy member
DerefDirect(s, L, resp) == RunThunk(s, L, resp)

\* the call sites' *_coefficients_table_raw, *_accel_intrinsics, ...
Deref(s, L, resp) == Force(s, L, resp)


----------------------------------------------------------------------------
(* ds5_camera::ds5_camera, in the order of its statements.  inp is what the *)
(* enumeration hands over, h what the hardware answers during construction. *)

\* create_depth_device, add_endpoint, the hw_monitor and the six lazy members
CtorDepth(inp) ==
    LET s0 == [NoDevice EXCEPT !.pid = inp.pid, !.n3 = inp.n3,
                               !.hid = inp.hid, !.usb = inp.usb]
        s1 == RegisterFormats(s0, "depth",
                              {"z16", "y8", "yuyv", "uyvyl", "rgb888"})
        s2 == IF inp.pid \in EmitterPids
              THEN RegisterOption(
                       RegisterOption(s1, "depth", "EMITTER_ENABLED", "emitter"),
                       "depth", "LASER_POWER", "xu")
              ELSE s1
        s3 == SetPose(s2, "depth", "identity")
    IN  AddEndpoint(s3, "depth")

\* the firmware version and the serial are read from GVD
CtorGvd(s, h) ==
    IF ~Running(s) THEN s
    ELSE IF h.failAt = "GVD" THEN Throw(s, "transport")
    ELSE [s EXCEPT !.fw = h.fw]

\* is_camera_in_advanced_mode and the two formats it unlocks
CtorAdvancedMode(s, h) ==
    IF ~Running(s) THEN s
    ELSE IF h.failAt = "UAMG" THEN Throw(s, "transport")
    ELSE IF h.uamg = "empty" THEN Throw(s, "command_result_empty")
    ELSE IF h.uamg = "nonzero"
         THEN RegisterFormats([s EXCEPT !.advanced_mode = TRUE],
                              "depth", {"y8i", "y12i"})
         ELSE s

\* the gate of the exposure, gain and white-balance controls
GateExposure(fw) == FwGE(fw, Fw563)

CtorExposure(s, h) ==
    IF ~Running(s) \/ ~GateExposure(s.fw) THEN s
    ELSE IF h.failAt = "LOCKED" THEN Throw(s, "transport")
    ELSE
      LET s1 == [s EXCEPT !.is_camera_locked = IF h.locked THEN "YES" ELSE "NO"]
          s2 == RegisterOption(s1, "depth", "GAIN", "pu")
          s3 == RegisterOption(s2, "depth", "EXPOSURE", "xu")
          s4 == RegisterOption(s3, "depth", "ENABLE_AUTO_EXPOSURE", "xu")
          s5 == RegisterOption(s4, "depth", "GAIN", "auto_disabling")
          s6 == RegisterOption(s5, "depth", "EXPOSURE", "auto_disabling")
      IN  IF s.pid \in AutoWbPids
          THEN RegisterOption(s6, "depth", "ENABLE_AUTO_WHITE_BALANCE", "xu")
          ELSE s6

\* a gate that opens one version late
GateErrorPollingStrict(fw) == fw # Fw558 /\ FwGE(fw, Fw558)

\* the gate of the trigger, error polling and temperature features
GateErrorPolling(fw) == FwGE(fw, Fw558)

CtorErrorPolling(s, h) ==
    IF ~Running(s) \/ ~GateErrorPolling(s.fw) THEN s
    ELSE
      LET s1 == RegisterOption(s, "depth", "OUTPUT_TRIGGER_ENABLED", "xu")
          s2 == [s1 EXCEPT !.polling = TRUE]
          s3 == RegisterOption(s2, "depth", "ERROR_POLLING_ENABLED",
                               "polling_errors_disable")
          s4 == IF s.pid \in ProjectorTempPids
                THEN RegisterOption(s3, "depth", "PROJECTOR_TEMPERATURE",
                                    "temperature")
                ELSE s3
          s5 == RegisterOption(s4, "depth", "ASIC_TEMPERATURE", "temperature")
      IN  IF s.pid \in FisheyePids
          THEN IF h.failAt = "MMFW" THEN Throw(s5, "transport")
               ELSE [s5 EXCEPT !.motion_module_fw_version = "mmfw"]
          ELSE s5

\* a depth-units option picked by the lock state of the camera
DepthUnitsByLock(s) ==
    IF s.is_camera_locked = "YES" THEN "depth_scale" ELSE "const_value"

\* the depth ROI method and the depth-units option
DepthUnitsKind(s) == IF s.advanced_mode THEN "depth_scale" ELSE "const_value"

CtorRoiAndUnits(s) ==
    IF ~Running(s) THEN s
    ELSE RegisterOption(SetRoiMethod(s, "depth", "ds5_auto_exposure_roi_method"),
                        "depth", "DEPTH_UNITS", DepthUnitsKind(s))

----------------------------------------------------------------------------
(* The metadata parsers the constructor registers.  The layout of           *)
(* metadata_raw is in bytes: the uvc header, then the mode-specific part, a  *)
(* sequence of sub-structures that each start with an md_header and flags.   *)

OffsetOfMode == 12
SubStructSize == 32
SubStructHeader == 12
FieldWidth == 4

\* the sub-structures of md_depth_y_normal_mode and md_fisheye_normal_mode
SubStructs(mode) ==
    IF mode = "depth"
    THEN <<"intel_capture_timing", "intel_capture_stats",
           "intel_depth_control", "intel_configuration">>
    ELSE <<"intel_capture_timing", "intel_capture_stats",
           "intel_fisheye_control", "intel_configuration">>

\* offsetof(metadata_raw, mode) + offsetof(md_<mode>_mode, <mode>_mode)
\*   + offsetof(md_<mode>_normal_mode, sub)
MdPropOffset(mode, sub) ==
    LET i == CHOOSE k \in 1..Len(SubStructs(mode)) : SubStructs(mode)[k] = sub
    IN  OffsetOfMode + (i - 1) * SubStructSize

\* the position of a member inside its sub-structure
MemberIndex(member) ==
    CASE member \in {"frame_counter", "white_balance", "manual_gain", "hw_type"} -> 0
      [] member \in {"sensor_timestamp", "manual_exposure", "sku_id"} -> 1
      [] member \in {"auto_exposure_mode", "format"} -> 2
      [] member = "width" -> 3
      [] OTHER -> 4

\* make_attribute_parser(&S::member, flag, md_prop_offset)
AttributeParser(mode, sub, member) ==
    [kind |-> "attribute", mode |-> mode, sub |-> sub, member |-> member,
     offset |-> MdPropOffset(mode, sub) + SubStructHeader
                  + FieldWidth * MemberIndex(member),
     width |-> FieldWidth]

\* make_uvc_header_parser, make_additional_data_parser: no mode, no offset
\* into the mode-specific part
PlainParser(kind) ==
    [kind |-> kind, mode |-> "any", sub |-> "", member |-> "", offset |-> 0,
     width |-> FieldWidth]

\* endpoint::register_metadata
RegisterMetadata(s, ep, field, parser) ==
    [s EXCEPT !.metadata = @ \cup {[ep |-> ep, field |-> field, parser |-> parser]}]

RECURSIVE RegisterAll(_, _, _)
RegisterAll(s, ep, regs) ==
    IF regs = <<>> THEN s
    ELSE RegisterAll(RegisterMetadata(s, ep, Head(regs)[1], Head(regs)[2]),
                     ep, Tail(regs))

\* the attribute parsers of md_configuration, the same on both endpoints
ConfigurationParsers(mode) ==
    << <<"HW_TYPE", AttributeParser(mode, "intel_configuration", "hw_type")>>,
       <<"SKU_ID", AttributeParser(mode, "intel_configuration", "sku_id")>>,
       <<"FORMAT", AttributeParser(mode, "intel_configuration", "format")>>,
       <<"WIDTH", AttributeParser(mode, "intel_configuration", "width")>>,
       <<"HEIGHT", AttributeParser(mode, "intel_configuration", "height")>> >>

TimingParsers(mode) ==
    << <<"FRAME_TIMESTAMP", PlainParser("uvc_header")>>,
       <<"FRAME_COUNTER",
         AttributeParser(mode, "intel_capture_timing", "frame_counter")>>,
       <<"SENSOR_TIMESTAMP",
         AttributeParser(mode, "intel_capture_timing", "sensor_timestamp")>> >>

\* the metadata registrations of the depth endpoint
CtorDepthMetadata(s) ==
    IF ~Running(s) THEN s
    ELSE RegisterAll(s, "depth",
           TimingParsers("depth")
           \o << <<"WHITE_BALANCE",
                   AttributeParser("depth", "intel_capture_stats", "white_balance")>>,
                 <<"GAIN_LEVEL",
                   AttributeParser("depth", "intel_depth_control", "manual_gain")>>,
                 <<"ACTUAL_EXPOSURE",
                   AttributeParser("depth", "intel_depth_control", "manual_exposure")>>,
                 <<"AUTO_EXPOSURE",
                   AttributeParser("depth", "intel_depth_control",
                                   "auto_exposure_mode")>> >>
           \o ConfigurationParsers("depth"))

\* fisheye registrations whose offsets are taken from the depth layout
FisheyeMetadataDepthLayout(s) ==
    RegisterAll(s, "fisheye",
      TimingParsers("depth") \o ConfigurationParsers("depth"))

\* the metadata registrations of the fisheye endpoint
FisheyeMetadata(s) ==
    RegisterAll(s, "fisheye",
      TimingParsers("fisheye")
      \o << <<"AUTO_EXPOSURE", PlainParser("additional_data")>> >>
      \o ConfigurationParsers("fisheye")
      \o << <<"GAIN_LEVEL",
              AttributeParser("fisheye", "intel_fisheye_control", "manual_gain")>>,
            <<"ACTUAL_EXPOSURE",
              AttributeParser("fisheye", "intel_fisheye_control",
                              "manual_exposure")>> >>)


\* a size check that lets a second mi = 3 interface through
AtLeastOneMi3(n) == n >= 1

\* filter_by_mi(dev_info, 3).size() != 1 is an error
SingleMi3(n) == n = 1

\* register_auto_exposure_options and the fisheye ROI method, or the plain
\* manual controls
\* a gate that opens only above 5.6.3.0
GateFisheyeAboveOnly(fw) == fw # Fw563 /\ FwGE(fw, Fw563)

GateFisheyeAutoExposure(fw) == FwGE(fw, Fw563)

FisheyeControls(s) ==
    IF GateFisheyeAutoExposure(s.fw)
    THEN LET s1 == RegisterOption(s, "fisheye", "ENABLE_AUTO_EXPOSURE",
                                  "enable_auto_exposure")
             s2 == RegisterOption(s1, "fisheye", "AUTO_EXPOSURE_MODE",
                                  "auto_exposure_mode")
             s3 == RegisterOption(s2, "fisheye", "AUTO_EXPOSURE_ANTIFLICKER_RATE",
                                  "auto_exposure_antiflicker_rate")
             s4 == RegisterOption(s3, "fisheye", "GAIN", "auto_disabling")
             s5 == RegisterOption(s4, "fisheye", "EXPOSURE", "auto_disabling")
         IN  SetRoiMethod(s5, "fisheye", "fisheye_auto_exposure_roi_method")
    ELSE RegisterOption(RegisterOption(s, "fisheye", "GAIN", "pu"),
                        "fisheye", "EXPOSURE", "xu")

\* create_hid_device
GateCustomHid(fw) == FwGE(fw, Fw560)

CreateHidDevice(s) ==
    IF s.hid = 0 THEN Throw(s, "hid_missing")
    ELSE
      LET s1 == [s EXCEPT !.hid_profiles =
                     IF GateCustomHid(s.fw)
                     THEN {"accel_3d", "gyro_3d", "custom"}
                     ELSE {"accel_3d", "gyro_3d"}]
          s2 == RegisterFormats(s1, "motion", {"accel_axes", "gyro_axes"})
          s3 == SetPose(s2, "motion", "identity")
      IN  IF GateCustomHid(s.fw)
          THEN RegisterFormats(
                   RegisterOption(s3, "motion", "MOTION_MODULE_TEMPERATURE",
                                  "temperature"),
                   "motion", {"gpio_timestamp"})
          ELSE s3

\* the body of the try block: both intrinsics are forced (in an order the
\* language leaves open) before the option is built and registered
MotionCorrectionBody(s, h) ==
    LET first  == IF h.order = "accel_first" THEN "accel_intrinsics"
                                              ELSE "gyro_intrinsics"
        second == IF h.order = "accel_first" THEN "gyro_intrinsics"
                                              ELSE "accel_intrinsics"
        s1 == Deref(s, first, h.mm1)
        s2 == Deref(s1, second, h.mm2)
    IN  IF s1.lazy[first].st # "ok" THEN Throw(s1, s1.lazy[first].kind)
        ELSE IF s2.lazy[second].st # "ok" THEN Throw(s2, s2.lazy[second].kind)
        ELSE RegisterOption(s2, "motion", "ENABLE_MOTION_CORRECTION",
                            "enable_motion_correction")

\* an exception that escapes the constructor unhandled
MotionCorrectionUncaught(s, h) == MotionCorrectionBody(s, h)

\* try { ... } catch (const std::exception&) { LOG_ERROR(...) }
TryMotionCorrection(s, h) ==
    LET r == MotionCorrectionBody(s, h)
    IN  IF Running(r) THEN r ELSE [r EXCEPT !.err = "none"]

InfoKeys(s, extra) ==
    {"DEVICE_NAME", "MODULE_NAME", "DEVICE_SERIAL_NUMBER",
     "CAMERA_FIRMWARE_VERSION", "DEVICE_LOCATION", "PRODUCT_ID"}
    \cup extra
    \cup (IF s.motion_module_fw_version # ""
          THEN {"MOTION_MODULE_FIRMWARE_VERSION"} ELSE {})
    \cup (IF s.is_camera_locked # "" THEN {"IS_CAMERA_LOCKED"} ELSE {})

\* a pose computed while the constructor runs: get_device_position reads the
\* fisheye extrinsics at once
EagerPose(s, ep) ==
    SetPose(Force(s, "fisheye_extrinsics", Resp("ok", 1)), ep,
            "get_device_position")

\* set_pose(lazy<pose>([this](){ return get_device_position(idx); }))
LazyPose(s, ep) == SetPose(s, ep, "get_device_position")

\* for (auto& elem : hid_info): the info record and the pose of the module
MotionInfoAndPose(s) ==
    LET keys == InfoKeys(s, {"DEVICE_DEBUG_OP_CODE"})
        s1 == [s EXCEPT !.info = @ \cup
                  {[idx |-> s.motion_idx, module |-> "Motion Module",
                    bus |-> "hid", n |-> j, keys |-> keys] : j \in 1..s.hid}]
    IN  IF s.hid > 0 THEN LazyPose(s1, "motion") ELSE s1

\* the fisheye and motion-module block
CtorFisheye(s, h) ==
    IF ~Running(s) \/ s.pid \notin FisheyePids THEN s
    ELSE IF ~SingleMi3(s.n3) THEN Throw(s, "single_fisheye_expected")
    ELSE
      LET s1 == RegisterFormats(s, "fisheye",
                                {"raw8", "fe_raw8_unpatched_kernel"})
          s2 == FisheyeMetadata(FisheyeControls(s1))
          s3 == [AddEndpoint(s2, "fisheye")
                     EXCEPT !.fisheye_idx = EndpointsCount(s2)]
          s4 == LazyPose(s3, "fisheye")
          s5 == CreateHidDevice(s4)
          s6 == [AddEndpoint(s5, "motion")
                     EXCEPT !.motion_idx = EndpointsCount(s5)]
          s7 == TryMotionCorrection(s6, h)
      IN  IF ~Running(s5) THEN s5
          ELSE IF ~Running(s7) THEN s7
          ELSE MotionInfoAndPose(s7)

\* create_color_device and the pose of the color sensor
CtorColor(s) ==
    IF ~Running(s) \/ s.pid \notin ColorPids THEN s
    ELSE IF ~SingleMi3(s.n3) THEN Throw(s, "single_color_expected")
    ELSE
      LET s1 == [AddEndpoint(s, "color") EXCEPT !.color_idx = EndpointsCount(s)]
          s2 == RegisterFormats(s1, "color", {"yuyv", "yuy2", "bayer16"})
          s3 == [s2 EXCEPT !.options = @ \cup
                    {[ep |-> "color", id |-> o, kind |-> "pu"] : o \in
                       {"BACKLIGHT_COMPENSATION", "BRIGHTNESS", "CONTRAST",
                        "EXPOSURE", "GAIN", "GAMMA", "HUE", "SATURATION",
                        "SHARPNESS", "WHITE_BALANCE", "ENABLE_AUTO_EXPOSURE",
                        "ENABLE_AUTO_WHITE_BALANCE"}}]
      IN  SetPose(s3, "color", "identity")

\* for (auto& element : dev_info): element 1 has mi = 0, the others mi = 3
CtorInfo(s) ==
    IF ~Running(s) THEN s
    ELSE
      LET s1 == RegisterEndpointInfo(s, 0, "Stereo Module", "uvc", 1,
                    InfoKeys(s, {"DEVICE_DEBUG_OP_CODE", "ADVANCED_MODE"}))
          fe == IF s.fisheye_idx # NoIdx /\ s.pid \in FisheyePids
                THEN {[idx |-> s.fisheye_idx, module |-> "Fisheye Camera",
                       bus |-> "uvc", n |-> 1 + j, keys |-> InfoKeys(s, {})]
                        : j \in 1..s.n3}
                ELSE {}
          co == IF s.fisheye_idx = NoIdx /\ s.color_idx # NoIdx
                   /\ s.pid \in ColorInfoPids
                THEN {[idx |-> s.color_idx, module |-> "RGB Camera",
                       bus |-> "uvc", n |-> 1 + j,
                       keys |-> {"DEVICE_NAME", "MODULE_NAME",
                                 "DEVICE_SERIAL_NUMBER",
                                 "CAMERA_FIRMWARE_VERSION", "DEVICE_LOCATION",
                                 "PRODUCT_ID"}]
                        : j \in 1..s.n3}
                ELSE {}
      IN  [s1 EXCEPT !.info = @ \cup fe \cup co]

\* the whole constructor: an exception leaves no object behind
Ctor(inp, h) ==
    LET s == CtorInfo(CtorColor(CtorFisheye(CtorDepthMetadata(
               CtorRoiAndUnits(CtorErrorPolling(
                 CtorExposure(CtorAdvancedMode(CtorGvd(CtorDepth(inp), h), h), h),
                 h))), h)))
    IN  IF Running(s)
        THEN [s EXCEPT !.phase = "ready", !.ctorSent = s.sent]
        ELSE [NoDevice EXCEPT !.phase = "failed", !.err = s.err,
                              !.pid = s.pid, !.n3 = s.n3, !.hid = s.hid,
                              !.usb = s.usb, !.fw = s.fw,
                              !.cmds = s.cmds, !.sent = s.sent,
                              !.ctorSent = s.sent]


----------------------------------------------------------------------------
(* What the enumeration and the hardware can hand to a construction *)

\* pick_ds5_devices: a group has an mi = 0 interface, and a fisheye product
\* without HID interfaces is skipped
EnumInputs ==
    { i \in [pid : Pids, n3 : 0..MaxMi3, hid : 0..MaxHid, usb : BOOLEAN] :
        i.pid \in FisheyePids => i.hid >= 1 }

\* the answers to the commands the constructor sends; an answer to a command
\* that is never sent is fixed, so that it is not counted twice
HwAnswers(inp, fws) ==
    { h \in [fw : fws,
             failAt : {"none", "GVD", "UAMG", "LOCKED", "MMFW"},
             uamg : {"empty", "zero", "nonzero"},
             locked : BOOLEAN,
             order : {"accel_first", "gyro_first"},
             mm1 : CalResps, mm2 : CalResps] :
        /\ h.failAt \in {"GVD", "UAMG"} => h.uamg = "zero"
        /\ (h.failAt \in {"GVD", "UAMG", "LOCKED"} \/ h.uamg = "empty"
              \/ ~GateExposure(h.fw)) => ~h.locked
        /\ (inp.pid \notin FisheyePids \/ inp.n3 # 1 \/ h.failAt # "none"
              \/ h.uamg = "empty")
             => (h.order = "accel_first" /\ h.mm1 = Resp("fail", 0))
        /\ h.mm1.kind # "ok" => h.mm2 = h.mm1 }

\* the inputs of the specifications that go on to call the device
CallInputs ==
    { i \in EnumInputs : /\ i.pid \in {"RS430_MM", "RS435_RGB"}
                         /\ i.n3 = 1 /\ i.hid = 1 /\ i.usb }
CallAnswers(inp) ==
    { h \in HwAnswers(inp, {Fw563}) :
        h.failAt = "none" /\ h.uamg = "zero" /\ ~h.locked }
\* the same, with a motion module whose calibration reads succeed
CalibratedAnswers(inp) ==
    { h \in CallAnswers(inp) :
        inp.pid \in FisheyePids => (h.mm1.kind = "ok" /\ h.mm2 = h.mm1) }

DeviceIds == {1, 2}
Threads == 1..NumThreads
NoOutcome == [L |-> "", val |-> Unevaluated]
IdleThread == [pc |-> "idle", todo |-> <<>>, got |-> NoOutcome]
NoRoi == [status |-> "none", cmd |-> "", resp |-> <<>>, roi |-> <<>>]

\* region_of_interest, and the value of region_of_interest _roi{}
Roi(min_y, max_y, min_x, max_x) ==
    [min_y |-> min_y, max_y |-> max_y, min_x |-> min_x, max_x |-> max_x]
ZeroRoi == Roi(0, 0, 0, 0)

\* the four words the hardware holds before any SETAEROI
InitialHwRoi == <<0, 0, 0, 0>>
IdleHwRoi ==
    [store |-> InitialHwRoi, ever |-> {}, pc |-> "idle", last |-> ZeroRoi,
     ret |-> NoRoi]
IdleRoiThread ==
    [pc |-> "idle", op |-> "", roi |-> ZeroRoi, todo |-> <<>>, sent |-> 0,
     ret |-> NoRoi]
NewSwRoi ==
    [roi |-> ZeroRoi, ae |-> ZeroRoi, pc |-> "new", wasSet |-> FALSE,
     last |-> ZeroRoi, clean |-> TRUE, ret |-> ZeroRoi]
NoNote ==
    [status |-> "none", value |-> 0,
     out |-> [category |-> "", raw_code |-> 0, severity |-> "",
              description |-> ""]]

\* no pose computed yet
NoPosition == [status |-> "none"]

\* a thread outside fisheye_auto_exposure_roi_method::set
IdleSwThread == [pc |-> "idle", roi |-> ZeroRoi]

NoMetadata == [status |-> "none"]

Init ==
    /\ dev = [d \in DeviceIds |-> NoDevice]
    /\ calls = 0
    /\ hist = {}
    /\ thr = [t \in Threads |-> IdleThread]
    /\ mtx = [L \in LazyNames |-> 0]
    /\ roiRet = NoRoi
    /\ hwRoi = IdleHwRoi
    /\ roiThr = [t \in Threads |-> IdleRoiThread]
    /\ swRoi = NewSwRoi
    /\ note = NoNote
    /\ mdRet = NoMetadata
    /\ posRet = NoPosition
    /\ swThr = [t \in Threads |-> IdleSwThread]

\* ds5_info::create: make_shared<ds5_camera>(backend, _depth, _hwm, _hid)
Create(d, inp, h) ==
    /\ dev' = [dev EXCEPT ![d] = Ctor(inp, h)]
    /\ UNCHANGED <<calls, hist, thr, mtx, roiRet, auxVars>>

CreateAny ==
    /\ dev[1].phase = "none"
    /\ \E inp \in EnumInputs : \E h \in HwAnswers(inp, FwVersions) :
          Create(1, inp, h)

NextCtor == CreateAny
SpecCtor == Init /\ [][NextCtor]_vars


----------------------------------------------------------------------------
(* The calls made on a constructed device *)

Ok(val) == [status |-> "ok", val |-> val]
Err(e) == [status |-> e, val |-> <<>>]
Args(sub, res, from, to) == [sub |-> sub, res |-> res, from |-> from, to |-> to]

\* check_calib on the bytes a lazy member holds: a failed fetch raises its
\* error again, bytes that are too few or do not validate are refused
CheckCalib(lz) ==
    CASE lz.st = "failed"  -> lz.kind
      [] lz.kind = "short"  -> "table_too_small"
      [] lz.kind = "badcrc" -> "table_invalid"
      [] OTHER              -> "ok"

\* get_intrinsic_by_resolution(raw, table_id, width, height)
IntrinsicByResolution(lz, res) ==
    IF CheckCalib(lz) # "ok" THEN Err(CheckCalib(lz))
    ELSE IF res \notin TableRes(lz.id) THEN Err("unsupported_resolution")
    ELSE Ok(<<lz.id, res[1], res[2]>>)

\* ds5_camera::get_intrinsics(subdevice, profile)
GetIntrinsicsCall(s, sub, res, resp) ==
    IF sub >= EndpointsCount(s)
    THEN [s |-> s, ret |-> Err("unsupported_subdevice")]
    ELSE IF sub = 0
    THEN LET s1 == Deref(s, "coefficients", resp)
         IN  [s |-> s1, ret |-> IntrinsicByResolution(s1.lazy["coefficients"], res)]
    ELSE IF sub = s.fisheye_idx
    THEN LET s1 == Deref(s, "fisheye_intrinsics", resp)
         IN  [s |-> s1,
              ret |-> IntrinsicByResolution(s1.lazy["fisheye_intrinsics"], res)]
    ELSE [s |-> s, ret |-> Err("not_implemented")]

\* ds5_camera::get_motion_intrinsics(stream)
GetMotionIntrinsicsCall(s, stream, resp) ==
    LET L == IF stream = "ACCEL" THEN "accel_intrinsics" ELSE "gyro_intrinsics"
        s1 == Deref(s, L, resp)
    IN  IF stream \notin {"ACCEL", "GYRO"}
        THEN [s |-> s, ret |-> Err("not_implemented")]
        ELSE [s |-> s1,
              ret |-> IF s1.lazy[L].st = "ok" THEN Ok(<<s1.lazy[L].id>>)
                      ELSE Err(s1.lazy[L].kind)]

\* get_device_position(_fisheye_device_idx): the inverse of the fisheye
\* extrinsics
FisheyePosition(s, resp) ==
    LET s1 == Deref(s, "fisheye_extrinsics", resp)
        lz == s1.lazy["fisheye_extrinsics"]
    IN  [s |-> s1,
         ret |-> IF CheckCalib(lz) = "ok" THEN Ok(<<lz.id>>)
                 ELSE Err(CheckCalib(lz))]

\* ds5_camera::get_device_position(subdevice)
GetDevicePositionCall(s, sub, r1, r2) ==
    IF sub >= EndpointsCount(s)
    THEN [s |-> s, ret |-> Err("unsupported_subdevice")]
    ELSE IF sub = s.fisheye_idx THEN FisheyePosition(s, r1)
    ELSE IF sub = s.motion_idx
    THEN LET fe == FisheyePosition(s, r1)
             s2 == Deref(fe.s, "mm_extrinsics", r2)
             lz == s2.lazy["mm_extrinsics"]
         IN  IF fe.ret.status # "ok" THEN fe
             ELSE [s |-> s2,
                   ret |-> IF lz.st = "ok" THEN Ok(fe.ret.val \o <<lz.id>>)
                           ELSE Err(lz.kind)]
    ELSE [s |-> s, ret |-> Err("not_implemented")]

Streams == {"DEPTH", "INFRARED", "INFRARED2"}
IsLeft(st) == st \in {"INFRARED", "DEPTH"}

\* rs2_extrinsics ext { {1,0,0,0,1,0,0,0,1}, {0,0,0} } as <<rotation,
\* translation>>
IdentityRotation == <<1, 0, 0, 0, 1, 0, 0, 0, 1>>
Extrinsics(rotation, translation) == <<rotation, translation>>

\* a translation that forgets the direction of the pair
BaselineUnsigned(s, sign, resp) ==
    LET s1 == Deref(s, "coefficients", resp)
        lz == s1.lazy["coefficients"]
    IN  [s |-> s1,
         ret |-> IF CheckCalib(lz) = "ok"
                 THEN Ok(Extrinsics(IdentityRotation,
                                    <<TableBaseline(lz.id), 0, 0>>))
                 ELSE Err(CheckCalib(lz))]

\* ext.translation[0] = sign * 0.001f * table->baseline, in units of 0.001
\* times the unit of the baseline
BaselineTranslation(s, sign, resp) ==
    LET s1 == Deref(s, "coefficients", resp)
        lz == s1.lazy["coefficients"]
    IN  [s |-> s1,
         ret |-> IF CheckCalib(lz) = "ok"
                 THEN Ok(Extrinsics(IdentityRotation,
                                    <<sign * TableBaseline(lz.id), 0, 0>>))
                 ELSE Err(CheckCalib(lz))]

\* ds5_camera::get_extrinsics(0, from_stream, 0, to_stream)
GetExtrinsicsCall(s, from, to, resp) ==
    IF IsLeft(to) /\ from = "INFRARED2" THEN BaselineTranslation(s, -1, resp)
    ELSE IF to = "INFRARED2" /\ IsLeft(from) THEN BaselineTranslation(s, 1, resp)
    ELSE [s |-> s, ret |-> Ok(Extrinsics(<<>>, <<>>))]

\* the record of what the calls returned: each distinct (call, result) with
\* the number of times it was returned
HistAdd(h, op, args, ret) ==
    IF \E e \in h : e.op = op /\ e.args = args /\ e.ret = ret
    THEN {IF e.op = op /\ e.args = args /\ e.ret = ret
          THEN [e EXCEPT !.n = @ + 1] ELSE e : e \in h}
    ELSE h \cup {[op |-> op, args |-> args, ret |-> ret, n |-> 1]}

Called(r, op, args) ==
    /\ dev' = [dev EXCEPT ![1] = r.s]
    /\ hist' = HistAdd(hist, op, args, r.ret)
    /\ calls' = calls + 1
    /\ UNCHANGED <<thr, mtx, roiRet, auxVars>>

CanCall == dev[1].phase = "ready" /\ calls < MaxCalls

GetIntrinsics ==
    /\ CanCall
    /\ \E sub \in 0..EndpointsCount(dev[1]), res \in Resolutions,
          resp \in CalResps :
          Called(GetIntrinsicsCall(dev[1], sub, res, resp), "get_intrinsics",
                 Args(sub, res, "", ""))

GetMotionIntrinsics ==
    /\ CanCall
    /\ \E stream \in {"ACCEL", "GYRO", "DEPTH"}, resp \in CalResps :
          Called(GetMotionIntrinsicsCall(dev[1], stream, resp),
                 "get_motion_intrinsics", Args(0, <<0, 0>>, stream, ""))

GetDevicePosition ==
    /\ CanCall
    /\ \E sub \in 0..EndpointsCount(dev[1]), r1 \in CalResps, r2 \in CalResps :
          Called(GetDevicePositionCall(dev[1], sub, r1, r2),
                 "get_device_position", Args(sub, <<0, 0>>, "", ""))

GetExtrinsics ==
    /\ CanCall
    /\ \E from \in Streams, to \in Streams, resp \in CalResps :
          Called(GetExtrinsicsCall(dev[1], from, to, resp), "get_extrinsics",
                 Args(0, <<0, 0>>, from, to))

CreateForCalls ==
    /\ dev[1].phase = "none"
    /\ \E inp \in CallInputs : \E h \in CalibratedAnswers(inp) : Create(1, inp, h)

CreateForMotion ==
    /\ dev[1].phase = "none"
    /\ \E inp \in CallInputs : \E h \in CallAnswers(inp) : Create(1, inp, h)

\* the calls that read the coefficients and the fisheye intrinsics tables
Next ==
    \/ CreateForCalls
    \/ GetIntrinsics
    \/ GetExtrinsics

\* the calls that read the motion-module table and the fisheye extrinsics
NextMotion ==
    \/ CreateForMotion
    \/ GetMotionIntrinsics
    \/ GetDevicePosition

SpecMotion == Init /\ [][NextMotion]_vars

Spec == Init /\ [][Next]_vars

----------------------------------------------------------------------------
(* Threads calling into one device: every access to a lazy member takes     *)
(* the member's mutex, evaluates under it and releases it.                  *)

\* the lazy members a call dereferences, in order: get_intrinsics of the
\* depth and the fisheye sub-device, get_motion_intrinsics of ACCEL and GYRO,
\* get_device_position of the fisheye and of the motion module
CallPaths ==
    { <<"coefficients">>, <<"fisheye_intrinsics">>, <<"accel_intrinsics">>,
      <<"gyro_intrinsics">>, <<"fisheye_extrinsics">>,
      <<"fisheye_extrinsics", "mm_extrinsics">> }

\* the answers the hardware gives while threads run
ThreadResps == {Resp("fail", 0), Resp("ok", 1), Resp("ok", 2)}

MutexFree(L) == mtx[L] = 0

\* a thread enters one of the calls
T_Begin(t) ==
    /\ dev[1].phase = "ready"
    /\ thr[t].pc = "idle"
    /\ \E path \in CallPaths :
          thr' = [thr EXCEPT ![t] = [pc |-> "lock", todo |-> path,
                                     got |-> NoOutcome]]
    /\ UNCHANGED <<dev, calls, hist, mtx, roiRet, auxVars>>

\* std::lock_guard<std::mutex> lock(_mtx)
T_Lock(t) ==
    /\ thr[t].pc = "lock"
    /\ MutexFree(Head(thr[t].todo))
    /\ mtx' = [mtx EXCEPT ![Head(thr[t].todo)] = t]
    /\ thr' = [thr EXCEPT ![t].pc = "eval"]
    /\ UNCHANGED <<dev, calls, hist, roiRet, auxVars>>

\* if (!_was_init) { _ptr = new T(_init()); _was_init = true; }
T_Eval(t) ==
    /\ thr[t].pc = "eval"
    /\ \E resp \in ThreadResps :
          dev' = [dev EXCEPT ![1] = Deref(dev[1], Head(thr[t].todo), resp)]
    /\ thr' = [thr EXCEPT ![t].pc = "unlock"]
    /\ UNCHANGED <<calls, hist, mtx, roiRet, auxVars>>

\* the mutex is released and the caller gets the value, or the exception
T_Unlock(t) ==
    LET L == Head(thr[t].todo)
        lz == dev[1].lazy[L]
    IN  /\ thr[t].pc = "unlock"
        /\ mtx' = [mtx EXCEPT ![L] = 0]
        /\ thr' = [thr EXCEPT ![t] =
                     [pc |-> IF lz.st = "ok" /\ Len(thr[t].todo) > 1
                             THEN "lock" ELSE "done",
                      todo |-> Tail(thr[t].todo),
                      got |-> [L |-> L, val |-> lz]]]
        /\ UNCHANGED <<dev, calls, hist, roiRet, auxVars>>

CreateForThreads ==
    /\ dev[1].phase = "none"
    /\ \E inp \in CallInputs : \E h \in CallAnswers(inp) :
          /\ inp.pid = "RS430_MM"
          /\ h.order = "accel_first"
          /\ h.mm1 \in {Resp("ok", 1), Resp("fail", 0)}
          /\ h.mm2 \in {Resp("ok", 1), Resp("fail", 0)}
          /\ Create(1, inp, h)

NextConc ==
    \/ CreateForThreads
    \/ \E t \in Threads : T_Begin(t)
    \/ \E t \in Threads : T_Lock(t)
    \/ \E t \in Threads : T_Eval(t)
    \/ \E t \in Threads : T_Unlock(t)

SpecConc == Init /\ [][NextConc]_vars

----------------------------------------------------------------------------
(* Two constructions side by side *)

PairInputs ==
    { i \in EnumInputs : i.n3 = 1 /\ i.hid = 1 /\ i.usb }
PairAnswers(inp) ==
    { h \in HwAnswers(inp, {<<5,5,7,9>>, Fw558, Fw563}) :
        /\ h.failAt = "none" /\ h.uamg # "empty"
        /\ h.order = "accel_first"
        /\ h.mm1 \in {Resp("ok", 1), Resp("fail", 0)}
        /\ h.mm2 \in {Resp("ok", 1), Resp("fail", 0)} }

CreateFirst ==
    /\ dev[1].phase = "none"
    /\ \E inp \in PairInputs : \E h \in PairAnswers(inp) : Create(1, inp, h)

CreateSecond ==
    /\ dev[1].phase # "none" /\ dev[2].phase = "none"
    /\ \E inp \in PairInputs : \E h \in PairAnswers(inp) : Create(2, inp, h)

NextPair == CreateFirst \/ CreateSecond
SpecPair == Init /\ [][NextPair]_vars

----------------------------------------------------------------------------
(* ds5_auto_exposure_roi_method::get *)

SizeofUint16 == 2
ByteVals == {0, 1, 255}
ExampleResponse == <<10, 0, 20, 0, 30, 0, 40, 0>>

\* what hw_monitor::send can return for GETAEROI: any bytes, or an exception
RoiResponses ==
    UNION {[1..n -> ByteVals] : n \in 0..MaxRespLen} \cup {ExampleResponse}

\* reinterpret_cast<uint16_t*>(res.data())[i] on the little-endian hosts the
\* library is built for: the low byte comes first
WordAt(bytes, i) ==
    bytes[SizeofUint16 * i + 1] + 256 * bytes[SizeofUint16 * i + 2]

\* a decoder that takes the columns before the rows
RoiXFirst(bytes) ==
    <<WordAt(bytes, 2), WordAt(bytes, 3), WordAt(bytes, 0), WordAt(bytes, 1)>>

\* roi.min_y = words[0]; roi.max_y = words[1]; roi.min_x = words[2];
\* roi.max_x = words[3], kept as <<min_y, max_y, min_x, max_x>>
RoiFromWords(bytes) ==
    <<WordAt(bytes, 0), WordAt(bytes, 1), WordAt(bytes, 2), WordAt(bytes, 3)>>

RoiGetResult(sent, bytes) ==
    IF ~sent
    THEN [status |-> "transport", cmd |-> "GETAEROI", resp |-> <<>>, roi |-> <<>>]
    ELSE IF Len(bytes) < 4 * SizeofUint16
    THEN [status |-> "invalid_result_size", cmd |-> "GETAEROI",
          resp |-> bytes, roi |-> <<>>]
    ELSE [status |-> "ok", cmd |-> "GETAEROI", resp |-> bytes,
          roi |-> RoiFromWords(bytes)]

RoiGet ==
    /\ roiRet.status = "none"
    /\ \E bytes \in RoiResponses : roiRet' = RoiGetResult(TRUE, bytes)
    /\ UNCHANGED <<dev, calls, hist, thr, mtx, auxVars>>

RoiGetSendFails ==
    /\ roiRet.status = "none"
    /\ roiRet' = RoiGetResult(FALSE, <<>>)
    /\ UNCHANGED <<dev, calls, hist, thr, mtx, auxVars>>

NextRoi == RoiGet \/ RoiGetSendFails
SpecRoi == Init /\ [][NextRoi]_vars

----------------------------------------------------------------------------
(* ds5_auto_exposure_roi_method::set, and a set followed by a get over a    *)
(* channel that keeps the four parameters as 16-bit words                   *)

\* the int values a caller may put in a field of the ROI
RoiFieldVals == {-1, 0, 7, 300, 65536}
Rois == {Roi(a, b, c, d) : a \in RoiFieldVals, b \in RoiFieldVals,
                           c \in RoiFieldVals, d \in RoiFieldVals}

\* a set that sends the columns before the rows
SetCommandXFirst(roi) ==
    [op |-> "SETAEROI", param1 |-> roi.min_x, param2 |-> roi.max_x,
     param3 |-> roi.min_y, param4 |-> roi.max_y]

\* cmd.param1 = roi.min_y; cmd.param2 = roi.max_y; cmd.param3 = roi.min_x;
\* cmd.param4 = roi.max_x
SetCommand(roi) ==
    [op |-> "SETAEROI", param1 |-> roi.min_y, param2 |-> roi.max_y,
     param3 |-> roi.min_x, param4 |-> roi.max_x]

GetCommand == [op |-> "GETAEROI", param1 |-> 0, param2 |-> 0,
               param3 |-> 0, param4 |-> 0]

\* the low 16 bits of an int
Word16(x) == x % 65536

\* the channel keeps the four parameters of SETAEROI as 16-bit words ...
ChannelStore(cmd) ==
    <<Word16(cmd.param1), Word16(cmd.param2), Word16(cmd.param3),
      Word16(cmd.param4)>>

\* ... and answers GETAEROI with them, low byte first
ChannelEcho(store) ==
    <<store[1] % 256, store[1] \div 256, store[2] % 256, store[2] \div 256,
      store[3] % 256, store[3] \div 256, store[4] % 256, store[4] \div 256>>

HwRoiSet ==
    /\ hwRoi.pc \in {"idle", "got"}
    /\ \E roi \in Rois :
          hwRoi' = [hwRoi EXCEPT !.store = ChannelStore(SetCommand(roi)),
                                 !.last = roi, !.pc = "set", !.ret = NoRoi]
    /\ UNCHANGED <<dev, calls, hist, thr, mtx, roiRet, posRet, swThr, roiThr, swRoi, note, mdRet>>

HwRoiGet ==
    /\ hwRoi.pc \in {"set", "got"}
    /\ hwRoi' = [hwRoi EXCEPT !.pc = "got",
                    !.ret = RoiGetResult(TRUE, ChannelEcho(hwRoi.store))]
    /\ UNCHANGED <<dev, calls, hist, thr, mtx, roiRet, posRet, swThr, roiThr, swRoi, note, mdRet>>

NextRoiTrip == HwRoiSet \/ HwRoiGet
SpecRoiTrip == Init /\ [][NextRoiTrip]_vars

----------------------------------------------------------------------------
(* Threads calling set and get of one ds5_auto_exposure_roi_method.  The    *)
(* channel takes one command at a time: a send is one step.                 *)

RoiChoices == {Roi(1, 2, 3, 4), Roi(5, 6, 7, 8)}

\* the four words of a ROI
RoiWords(roi) ==
    <<Word16(roi.min_y), Word16(roi.max_y), Word16(roi.min_x), Word16(roi.max_x)>>

\* a set that sends its command a second time
HwSetTwice(roi) == <<SetCommand(roi), SetCommand(roi)>>

\* the commands one call sends: command cmd(...); _hw_monitor.send(cmd);
HwSetCommands(roi) == <<SetCommand(roi)>>
HwGetCommands == <<GetCommand>>

R_Call(t) ==
    /\ roiThr[t].pc = "idle"
    /\ \/ \E roi \in RoiChoices :
            roiThr' = [roiThr EXCEPT ![t] =
                         [pc |-> "send", op |-> "set", roi |-> roi,
                          todo |-> HwSetCommands(roi), sent |-> 0, ret |-> NoRoi]]
       \/ roiThr' = [roiThr EXCEPT ![t] =
                       [pc |-> "send", op |-> "get", roi |-> ZeroRoi,
                        todo |-> HwGetCommands, sent |-> 0, ret |-> NoRoi]]
    /\ UNCHANGED <<dev, calls, hist, thr, mtx, roiRet, posRet, swThr, hwRoi, swRoi, note, mdRet>>

\* hw_monitor::send of the next command of the call
R_Send(t) ==
    /\ roiThr[t].pc = "send"
    /\ LET cmd  == Head(roiThr[t].todo)
           rest == Tail(roiThr[t].todo)
           pc   == IF rest = <<>> THEN "done" ELSE "send"
       IN  IF cmd.op = "SETAEROI"
           THEN /\ hwRoi' = [hwRoi EXCEPT !.store = ChannelStore(cmd),
                                !.ever = @ \cup {RoiWords(roiThr[t].roi)}]
                /\ roiThr' = [roiThr EXCEPT ![t].todo = rest, ![t].pc = pc,
                                            ![t].sent = @ + 1]
           ELSE /\ roiThr' = [roiThr EXCEPT ![t].todo = rest, ![t].pc = pc,
                                ![t].sent = @ + 1,
                                ![t].ret = RoiGetResult(TRUE,
                                               ChannelEcho(hwRoi.store))]
                /\ UNCHANGED hwRoi
    /\ UNCHANGED <<dev, calls, hist, thr, mtx, roiRet, posRet, swThr, swRoi, note, mdRet>>

\* hw_monitor::send throws: the call ends with the exception
R_SendFails(t) ==
    /\ roiThr[t].pc = "send"
    /\ roiThr' = [roiThr EXCEPT ![t].todo = <<>>, ![t].pc = "done",
                                ![t].sent = @ + 1,
                                ![t].ret = RoiGetResult(FALSE, <<>>)]
    /\ UNCHANGED <<dev, calls, hist, thr, mtx, roiRet, posRet, swThr, hwRoi, swRoi, note, mdRet>>

R_Return(t) ==
    /\ roiThr[t].pc = "done"
    /\ roiThr' = [roiThr EXCEPT ![t] = IdleRoiThread]
    /\ UNCHANGED <<dev, calls, hist, thr, mtx, roiRet, posRet, swThr, hwRoi, swRoi, note, mdRet>>

NextHwRoi ==
    \/ \E t \in Threads : R_Call(t)
    \/ \E t \in Threads : R_Send(t)
    \/ \E t \in Threads : R_SendFails(t)
    \/ \E t \in Threads : R_Return(t)

SpecHwRoi == Init /\ [][NextHwRoi]_vars

----------------------------------------------------------------------------
(* A registered metadata parser applied to the buffer of a frame *)

\* the mode tag and the length of a metadata buffer
MdBuffers == [mode : {"depth", "fisheye", "other"}, len : 0..MaxMdLen]

\* md_attribute_parser: the field is there when the buffer reaches past it
\* and carries the mode the offset was computed for
ApplyParser(p, buf) ==
    IF buf.len < p.offset + p.width \/ buf.mode # p.mode
    THEN [status |-> "not_present", readTo |-> 0]
    ELSE [status |-> "value", readTo |-> p.offset + p.width]

ParseMetadata ==
    /\ dev[1].phase = "ready"
    /\ mdRet.status = "none"
    /\ \E reg \in dev[1].metadata : \E buf \in MdBuffers :
          /\ reg.parser.kind = "attribute"
          /\ LET r == ApplyParser(reg.parser, buf)
             IN  mdRet' = [status |-> r.status, readTo |-> r.readTo,
                           reg |-> reg, buf |-> buf]
    /\ UNCHANGED <<dev, calls, hist, thr, mtx, roiRet, posRet, swThr, hwRoi, roiThr, swRoi, note>>

CreateForMetadata ==
    /\ dev[1].phase = "none"
    /\ \E inp \in CallInputs : \E h \in CalibratedAnswers(inp) : Create(1, inp, h)

NextMetadata == CreateForMetadata \/ ParseMetadata
SpecMetadata == Init /\ [][NextMetadata]_vars

----------------------------------------------------------------------------
(* ds5_notification_decoder::decode *)

\* ds::ds5_notifications_types
hot_laser_power_reduce == 1
hot_laser_disable == 2
flag_B_laser_disable == 4

Notification(severity, value, description) ==
    [category |-> "HARDWARE_ERROR", raw_code |-> value,
     severity |-> severity, description |-> description]

\* a decoder that does not know the code 0
DecodeFaultsOnly(value) ==
    IF value = hot_laser_power_reduce
    THEN Notification("ERROR", value, "Hot laser power reduce")
    ELSE IF value = hot_laser_disable
    THEN Notification("ERROR", value, "Hot laser disable")
    ELSE IF value = flag_B_laser_disable
    THEN Notification("ERROR", value, "Flag B laser disable")
    ELSE Notification("NONE", value, "Unknown error!")

Decode(value) ==
    IF value = 0
    THEN Notification("ERROR", value, "Success")
    ELSE IF value = hot_laser_power_reduce
    THEN Notification("ERROR", value, "Hot laser power reduce")
    ELSE IF value = hot_laser_disable
    THEN Notification("ERROR", value, "Hot laser disable")
    ELSE IF value = flag_B_laser_disable
    THEN Notification("ERROR", value, "Flag B laser disable")
    ELSE Notification("NONE", value, "Unknown error!")

\* the int values handed to decode
NoteCodes == (-MaxCode..MaxCode) \cup {9999, 2147483647, -2147483647 - 1}

DecodeNotification ==
    /\ \E value \in NoteCodes :
          note' = [status |-> "decoded", value |-> value, out |-> Decode(value)]
    /\ UNCHANGED <<dev, calls, hist, thr, mtx, roiRet, posRet, swThr, hwRoi, roiThr, swRoi, mdRet>>

NextDecode == DecodeNotification
SpecDecode == Init /\ [][NextDecode]_vars

----------------------------------------------------------------------------
(* fisheye_auto_exposure_roi_method: swRoi.roi is _roi, swRoi.ae the ROI    *)
(* the auto-exposure mechanism was last given                               *)

SwRois == {Roi(a, b, c, d) : a \in {0, 5}, b \in {0, 9},
                             c \in {0, 5}, d \in {0, 9}}

\* a set that caches the ROI without handing it to the mechanism
SwSetCacheOnly(sw, roi) == [sw EXCEPT !.roi = roi]

\* _auto_exposure->update_auto_exposure_roi(roi); _roi = roi;
SwSet(sw, roi) == [sw EXCEPT !.ae = roi, !.roi = roi]

\* a set that caches the ROI before it hands it to the mechanism
SwSetCacheFirst(sw, roi, taken) ==
    [sw EXCEPT !.roi = roi, !.ae = IF taken THEN roi ELSE @]

\* the same two statements when update_auto_exposure_roi throws: the
\* exception leaves set before _roi = roi
SwSetThrows(sw, roi, taken) ==
    [sw EXCEPT !.ae = IF taken THEN roi ELSE @]

\* return _roi;
SwGet(sw) == sw.roi

SwRoiSet ==
    /\ \E roi \in SwRois :
          swRoi' = [SwSet(swRoi, roi) EXCEPT !.pc = "set", !.wasSet = TRUE,
                                            !.last = roi]
    /\ UNCHANGED <<dev, calls, hist, thr, mtx, roiRet, posRet, swThr, hwRoi,
                   roiThr, note, mdRet>>

\* update_auto_exposure_roi throws: _roi = roi is not reached, and whether
\* the mechanism has taken the ROI is not known
SwRoiSetFails ==
    /\ \E roi \in SwRois : \E taken \in BOOLEAN :
          swRoi' = [SwSetThrows(swRoi, roi, taken) EXCEPT
                        !.pc = "set_failed", !.clean = FALSE]
    /\ UNCHANGED <<dev, calls, hist, thr, mtx, roiRet, posRet, swThr, hwRoi,
                   roiThr, note, mdRet>>

SwRoiGet ==
    /\ swRoi' = [swRoi EXCEPT !.pc = "got", !.ret = SwGet(swRoi)]
    /\ UNCHANGED <<dev, calls, hist, thr, mtx, roiRet, posRet, swThr, hwRoi,
                   roiThr, note, mdRet>>

NextSwRoi == SwRoiSet \/ SwRoiSetFails \/ SwRoiGet
SpecSwRoi == Init /\ [][NextSwRoi]_vars

----------------------------------------------------------------------------
(* Threads calling set of one fisheye_auto_exposure_roi_method.  set takes  *)
(* no lock: the hand-over to the mechanism is one step, and the assignment  *)
(* to _roi, a copy of four ints that races with the other thread's, is      *)
(* taken in two halves so that every outcome of the race can show.          *)

SwConcRois == {Roi(0, 9, 0, 9), Roi(5, 9, 0, 9), Roi(0, 9, 5, 9)}

\* _auto_exposure->update_auto_exposure_roi(roi);
SwForward(sw, roi) == [sw EXCEPT !.ae = roi, !.last = roi]

\* _roi = roi; the first two members
SwStoreRows(sw, roi) ==
    [sw EXCEPT !.roi = [@ EXCEPT !.min_y = roi.min_y, !.max_y = roi.max_y]]

\* _roi = roi; the last two members
SwStoreColumns(sw, roi) ==
    [sw EXCEPT !.roi = [@ EXCEPT !.min_x = roi.min_x, !.max_x = roi.max_x]]

SwQuiet == \A t \in Threads : swThr[t].pc \in {"idle", "done"}

S_Call(t) ==
    /\ calls < MaxCalls
    /\ swThr[t].pc \in {"idle", "done"}
    /\ \E roi \in SwConcRois :
          swThr' = [swThr EXCEPT ![t] = [pc |-> "called", roi |-> roi]]
    /\ calls' = calls + 1
    /\ swRoi' = [swRoi EXCEPT !.pc = "set"]
    /\ UNCHANGED <<dev, hist, thr, mtx, roiRet, posRet, hwRoi, roiThr, note,
                   mdRet>>

S_Forward(t) ==
    /\ swThr[t].pc = "called"
    /\ swRoi' = SwForward(swRoi, swThr[t].roi)
    /\ swThr' = [swThr EXCEPT ![t].pc = "forwarded"]
    /\ UNCHANGED <<dev, calls, hist, thr, mtx, roiRet, posRet, hwRoi, roiThr,
                   note, mdRet>>

S_StoreRows(t) ==
    /\ swThr[t].pc = "forwarded"
    /\ swRoi' = SwStoreRows(swRoi, swThr[t].roi)
    /\ swThr' = [swThr EXCEPT ![t].pc = "storing"]
    /\ UNCHANGED <<dev, calls, hist, thr, mtx, roiRet, posRet, hwRoi, roiThr,
                   note, mdRet>>

\* the assignment is complete and set returns
S_StoreColumns(t) ==
    /\ swThr[t].pc = "storing"
    /\ swRoi' = [SwStoreColumns(swRoi, swThr[t].roi) EXCEPT !.wasSet = TRUE]
    /\ swThr' = [swThr EXCEPT ![t].pc = "done"]
    /\ UNCHANGED <<dev, calls, hist, thr, mtx, roiRet, posRet, hwRoi, roiThr,
                   note, mdRet>>

\* get() once every set has returned
S_Get ==
    /\ SwQuiet
    /\ swRoi.pc = "set"
    /\ swRoi.wasSet
    /\ swRoi' = [swRoi EXCEPT !.pc = "got", !.ret = SwGet(swRoi)]
    /\ UNCHANGED <<dev, calls, hist, thr, mtx, roiRet, posRet, swThr, hwRoi,
                   roiThr, note, mdRet>>

NextSwConc ==
    \/ \E t \in Threads : S_Call(t)
    \/ \E t \in Threads : S_Forward(t)
    \/ \E t \in Threads : S_StoreRows(t)
    \/ \E t \in Threads : S_StoreColumns(t)
    \/ S_Get

SpecSwConc == Init /\ [][NextSwConc]_vars

----------------------------------------------------------------------------
(* ds5_camera::get_device_position in coordinates.  A float3x3 is three     *)
(* columns x, y, z, written here as nine numbers; a pose is an orientation  *)
(* and a position.                                                          *)

\* float3x3::operator()(i, j): row i of column j
At(m, i, j) == m[3 * j + i + 1]

\* transpose(float3x3)
Transpose(m) == [k \in 1..9 |-> At(m, (k - 1) \div 3, (k - 1) % 3)]

\* float3x3 * float3
MatVec(m, v) ==
    [i \in 1..3 |-> At(m, i - 1, 0) * v[1] + At(m, i - 1, 1) * v[2]
                    + At(m, i - 1, 2) * v[3]]

\* float3x3 * float3x3
MatMul(a, b) ==
    [k \in 1..9 |->
        LET i == (k - 1) % 3
            j == (k - 1) \div 3
        IN  At(a, i, 0) * At(b, 0, j) + At(a, i, 1) * At(b, 1, j)
            + At(a, i, 2) * At(b, 2, j)]

Pose(orientation, position) ==
    [orientation |-> orientation, position |-> position]

\* inverse(pose): the transposed orientation and the position taken back
Inverse(a) ==
    LET inv == Transpose(a.orientation)
    IN  Pose(inv, [i \in 1..3 |-> 0 - MatVec(inv, a.position)[i]])

\* pose * pose
Compose(a, b) ==
    Pose(MatMul(a.orientation, b.orientation),
         [i \in 1..3 |-> a.position[i] + MatVec(a.orientation, b.position)[i]])

\* the rotation as the calibration means it: every entry at its own place
MotionExtrinsicPoseByEntry(rot, trans) ==
    Pose(<<At(rot, 0, 0), At(rot, 1, 0), At(rot, 2, 0),
           At(rot, 0, 1), At(rot, 1, 1), At(rot, 2, 1),
           At(rot, 0, 2), At(rot, 1, 2), At(rot, 2, 2)>>,
         <<trans[1], trans[2], trans[3]>>)

\* pose ex = {{rot(0,0), rot(1,0), rot(2,0), rot(1,0), rot(1,1), rot(2,1),
\*             rot(0,2), rot(1,2), rot(2,2)}, {trans[0], trans[1], trans[2]}}
MotionExtrinsicPose(rot, trans) ==
    Pose(<<At(rot, 0, 0), At(rot, 1, 0), At(rot, 2, 0),
           At(rot, 1, 0), At(rot, 1, 1), At(rot, 2, 1),
           At(rot, 0, 2), At(rot, 1, 2), At(rot, 2, 2)>>,
         <<trans[1], trans[2], trans[3]>>)

\* the fisheye branch: return inverse(extr)
FisheyePose(extr) == Inverse(extr)

\* the motion-module branch: return fe_pose * ex
MotionModulePose(extr, rot, trans) ==
    Compose(FisheyePose(extr), MotionExtrinsicPose(rot, trans))

IdentityPose == Pose(<<1, 0, 0, 0, 1, 0, 0, 0, 1>>, <<0, 0, 0>>)

\* the fisheye extrinsics of the calibration: none, and a quarter turn about
\* z with an offset
FisheyeExtrinsics ==
    {IdentityPose, Pose(<<0, 1, 0, -1, 0, 0, 0, 0, 1>>, <<1, 2, 3>>)}

\* the imu_to_fisheye entry as the table delivers it: any nine numbers
Rotations == [1..9 -> {0, 1}]
Rot01Vals == {-1, 0, 1}
Translations == {<<0, 0, 0>>, <<4, 5, 6>>}

\* get_device_position(_motion_module_device_idx) on two calibrations whose
\* rotations differ at most in entry (0,1)
ComputeMotionPosition ==
    /\ posRet.status = "none"
    /\ \E extr \in FisheyeExtrinsics, rot \in Rotations, v \in Rot01Vals,
          trans \in Translations :
         LET other == [rot EXCEPT ![4] = v]
         IN  posRet' = [status |-> "computed", extr |-> extr, rot |-> rot,
                        other |-> other, trans |-> trans,
                        fe |-> FisheyePose(extr),
                        ret |-> MotionModulePose(extr, rot, trans),
                        retOther |-> MotionModulePose(extr, other, trans)]
    /\ UNCHANGED <<dev, calls, hist, thr, mtx, roiRet, hwRoi, roiThr, swRoi,
                   note, mdRet, swThr>>

NextPosition == ComputeMotionPosition

SpecPosition == Init /\ [][NextPosition]_vars

----------------------------------------------------------------------------
(* Properties of the constructor *)

HasOption(s, ep, id) == \E o \in s.options : o.ep = ep /\ o.id = id
CalibErrors == {"calib_transport", "calib_short", "calib_invalid"}
CtorCmdCount(s, c) ==
    LET ls == {L \in LazyNames : ThunkCmd(L) = c}
        RECURSIVE Sum(_)
        Sum(S) == IF S = {} THEN 0
                  ELSE LET L == CHOOSE x \in S : TRUE
                       IN  s.ctorSent[L] + Sum(S \ {L})
    IN  Sum(ls)

\* C6: for a product id that indicates a fisheye or a color sub-device, a
\* construction succeeds only with exactly one mi = 3 sub-interface; with none
\* or several it fails with an error and leaves no device object.
C6_SingleOpticalSubInterface ==
    \A d \in DeviceIds :
      (dev[d].phase # "none" /\ dev[d].pid \in FisheyePids \cup ColorPids) =>
        /\ dev[d].phase = "ready" => dev[d].n3 = 1
        /\ dev[d].n3 # 1 =>
             /\ dev[d].phase = "failed"
             /\ dev[d].err # "none"
             /\ dev[d].endpoints = <<>>
             /\ dev[d].options = {}

\* a color product enumerated with two mi = 3 interfaces was refused
C6_Witness ==
    /\ dev[1].phase = "failed"
    /\ dev[1].pid = "RS435_RGB"
    /\ dev[1].n3 = 2
    /\ dev[1].err = "single_color_expected"

\* C7: when building the motion-correction control fails, no error of the
\* calibration read reaches the caller, the device is built, the option is
\* absent and the motion module keeps its endpoint, info records and pose.
C7_MotionCorrectionFailureIsNotFatal ==
    \A d \in DeviceIds :
      /\ dev[d].err \notin CalibErrors
      /\ (dev[d].phase # "none"
            /\ \E L \in {"accel_intrinsics", "gyro_intrinsics"} :
                 dev[d].lazy[L].st = "failed") =>
           /\ dev[d].phase = "ready"
           /\ ~HasOption(dev[d], "motion", "ENABLE_MOTION_CORRECTION")
           /\ dev[d].endpoints = <<"depth", "fisheye", "motion">>
           /\ \A j \in 1..dev[d].hid :
                \E r \in dev[d].info : /\ r.idx = dev[d].motion_idx
                                       /\ r.module = "Motion Module"
                                       /\ r.bus = "hid" /\ r.n = j
           /\ <<"motion", "get_device_position">> \in dev[d].pose
           /\ {<<"motion", "accel_axes">>, <<"motion", "gyro_axes">>}
                 \subseteq dev[d].formats

\* the accelerometer read failed in the constructor and the device was built
C7_Witness ==
    /\ dev[1].phase = "ready"
    /\ dev[1].pid = "RS430_MM"
    /\ dev[1].lazy["accel_intrinsics"].st = "failed"
    /\ dev[1].lazy["gyro_intrinsics"].st = "uneval"
    /\ dev[1].motion_idx = 2
    /\ ~HasOption(dev[1], "motion", "ENABLE_MOTION_CORRECTION")

\* C8: the output-trigger option, error polling and its option, the ASIC
\* temperature and (for RS410, RS430_MM, RS430) the projector temperature are
\* registered exactly when the firmware version, compared major first, is at
\* least 5.5.8.0.
C8_Gate558 ==
    \A d \in DeviceIds :
      dev[d].phase = "ready" =>
        LET fw == dev[d].fw
            atLeast == \/ fw[1] > 5
                       \/ fw[1] = 5 /\ fw[2] > 5
                       \/ fw[1] = 5 /\ fw[2] = 5 /\ fw[3] > 8
                       \/ fw[1] = 5 /\ fw[2] = 5 /\ fw[3] = 8 /\ fw[4] >= 0
        IN  /\ HasOption(dev[d], "depth", "OUTPUT_TRIGGER_ENABLED") <=> atLeast
            /\ HasOption(dev[d], "depth", "ERROR_POLLING_ENABLED") <=> atLeast
            /\ dev[d].polling <=> atLeast
            /\ HasOption(dev[d], "depth", "ASIC_TEMPERATURE") <=> atLeast
            /\ HasOption(dev[d], "depth", "PROJECTOR_TEMPERATURE") <=>
                 (atLeast /\ dev[d].pid \in {"RS410", "RS430_MM", "RS430"})
            /\ fw = <<5,5,7,0>> => ~dev[d].polling
            /\ fw = <<5,5,8,0>> => dev[d].polling

\* a device with firmware 5.5.8.0 has the gated features
C8_Witness ==
    /\ dev[1].phase = "ready"
    /\ dev[1].fw = <<5,5,8,0>>
    /\ dev[1].pid = "RS410"
    /\ HasOption(dev[1], "depth", "PROJECTOR_TEMPERATURE")
    /\ HasOption(dev[1], "depth", "OUTPUT_TRIGGER_ENABLED")
    /\ dev[1].polling


----------------------------------------------------------------------------
(* Properties of the lazily fetched calibration tables *)

IntrinsicsEntries(sub) ==
    {e \in hist : e.op = "get_intrinsics" /\ e.args.sub = sub}

IntrinsicsMemoized(sub, L) ==
    (/\ IntrinsicsEntries(sub) # {}
     /\ dev[1].lazy[L].st = "ok" /\ dev[1].lazy[L].kind = "ok") =>
       /\ dev[1].cmds[ThunkCmd(L)] = 1
       /\ \A e1 \in IntrinsicsEntries(sub) : \A e2 \in IntrinsicsEntries(sub) :
            e1.args = e2.args => e1.ret = e2.ret
       /\ \A e \in IntrinsicsEntries(sub) :
            e.args.res \in TableRes(dev[1].lazy[L].id) =>
              e.ret = Ok(<<dev[1].lazy[L].id, e.args.res[1], e.args.res[2]>>)

\* C1: with a well-formed table, all get_intrinsics calls on the depth (or
\* the fisheye) sub-device with the same width and height return the same
\* value, and GETINTCAL (or the fisheye MMER read) was sent exactly once,
\* however many calls were made.
C1_IntrinsicsFetchedOnce ==
    dev[1].phase = "ready" =>
      /\ IntrinsicsMemoized(0, "coefficients")
      /\ dev[1].fisheye_idx # NoIdx =>
           IntrinsicsMemoized(dev[1].fisheye_idx, "fisheye_intrinsics")

\* the same depth intrinsics were returned twice, the fisheye ones once
C1_Witness ==
    /\ dev[1].cmds["GETINTCAL"] = 1
    /\ dev[1].cmds["MMER_84"] = 1
    /\ \E e \in hist : /\ e.op = "get_intrinsics" /\ e.args.sub = 0
                       /\ e.ret.status = "ok" /\ e.n = 2
    /\ \E e \in hist : /\ e.op = "get_intrinsics" /\ e.args.sub = 1
                       /\ e.ret.status = "ok"

C3_MotionTableReadOnce ==
    \A d \in DeviceIds : dev[d].cmds["MMER_134"] <= 1

\* C4 as claimed: no calibration fetch is sent while the constructor runs.
C4_NoFetchDuringConstruction ==
    \A d \in DeviceIds : \A L \in LazyNames : dev[d].ctorSent[L] = 0

\* C4 as amended: the constructor sends only the motion-module reads for the
\* accelerometer and gyroscope intrinsics (at most one each, fisheye products
\* only) and absorbs their failure; the other four members are first fetched
\* after construction, and a failure of theirs was returned by a call.
C4_OnlyMotionIntrinsicsInConstructor ==
    \A d \in DeviceIds :
      /\ \A L \in LazyNames \ {"accel_intrinsics", "gyro_intrinsics"} :
           /\ dev[d].ctorSent[L] = 0
           /\ (d = 1 /\ dev[d].lazy[L].st = "failed") =>
                \E e \in hist : e.ret.status = dev[d].lazy[L].kind
      /\ \A L \in {"accel_intrinsics", "gyro_intrinsics"} :
           /\ dev[d].ctorSent[L] <= 1
           /\ dev[d].ctorSent[L] = 1 =>
                /\ dev[d].pid \in FisheyePids
                /\ dev[d].phase = "ready"
                /\ dev[d].err = "none"

\* both intrinsics were read in the constructor, and the fisheye extrinsics
\* read failed in a later get_device_position
C4_Witness ==
    /\ dev[1].ctorSent["accel_intrinsics"] = 1
    /\ dev[1].ctorSent["gyro_intrinsics"] = 1
    /\ dev[1].lazy["fisheye_extrinsics"].st = "failed"
    /\ dev[1].sent["fisheye_extrinsics"] = 1
    /\ \E e \in hist : /\ e.op = "get_device_position"
                       /\ e.ret.status = "calib_transport"

\* C5: once the command of a lazily fetched table has failed, no later step
\* sends that table's command again.
C5_NoRetryAfterFailure ==
    [][ \A c \in CalCmds :
          (\E L \in LazyNames : ThunkCmd(L) = c /\ dev[1].lazy[L].st = "failed")
            => dev'[1].cmds[c] = dev[1].cmds[c] ]_vars


----------------------------------------------------------------------------
(* Properties of the capability set and of the ROI read *)

Behaviours(s) ==
    [options |-> s.options, formats |-> s.formats, endpoints |-> s.endpoints,
     roi_method |-> s.roi_method, hid_profiles |-> s.hid_profiles]

SameInputs(a, b) ==
    /\ a.phase = "ready" /\ b.phase = "ready"
    /\ a.pid = b.pid /\ a.fw = b.fw
    /\ a.n3 = b.n3 /\ a.hid = b.hid /\ a.usb = b.usb

MotionCalibrated(s) ==
    /\ s.lazy["accel_intrinsics"].st = "ok"
    /\ s.lazy["gyro_intrinsics"].st = "ok"

\* C9 as claimed: two constructions with the same product id, firmware
\* version and optional hardware enable the same behaviours.
C9_DeterminedByThreeInputs ==
    SameInputs(dev[1], dev[2]) => Behaviours(dev[1]) = Behaviours(dev[2])

\* C9 as amended: two constructions with the same product id, firmware
\* version and optional hardware that also got the same advanced-mode answer
\* and the same success of the motion calibration reads enable the same
\* behaviours.
C9_DeterminedWithModeAndCalibration ==
    (/\ SameInputs(dev[1], dev[2])
     /\ dev[1].advanced_mode = dev[2].advanced_mode
     /\ MotionCalibrated(dev[1]) = MotionCalibrated(dev[2]))
      => Behaviours(dev[1]) = Behaviours(dev[2])

\* two calibrated RS430_MM in advanced mode that differ only in the lock
C9_Witness ==
    /\ SameInputs(dev[1], dev[2])
    /\ dev[1].pid = "RS430_MM" /\ dev[1].fw = Fw563
    /\ dev[1].advanced_mode /\ dev[2].advanced_mode
    /\ MotionCalibrated(dev[1]) /\ MotionCalibrated(dev[2])
    /\ dev[1].is_camera_locked = "YES" /\ dev[2].is_camera_locked = "NO"
    /\ <<"depth", "y8i">> \in dev[2].formats
    /\ HasOption(dev[2], "motion", "ENABLE_MOTION_CORRECTION")

\* C10: the ROI read sends GETAEROI; a response of 8 bytes or more gives
\* min_y, max_y, min_x, max_x as its first four little-endian 16-bit words,
\* a shorter one gives an error and no ROI.
C10_RoiGetDecodes ==
    roiRet.status \in {"ok", "invalid_result_size"} =>
      LET b == roiRet.resp IN
      /\ roiRet.cmd = "GETAEROI"
      /\ Len(b) >= 8 =>
           /\ roiRet.status = "ok"
           /\ roiRet.roi = <<b[1] + 256 * b[2], b[3] + 256 * b[4],
                             b[5] + 256 * b[6], b[7] + 256 * b[8]>>
      /\ Len(b) < 8 => (roiRet.status = "invalid_result_size" /\ roiRet.roi = <<>>)
      /\ b = <<10, 0, 20, 0, 30, 0, 40, 0>> => roiRet.roi = <<10, 20, 30, 40>>

\* the example response was decoded
C10_Witness ==
    /\ roiRet.status = "ok"
    /\ roiRet.resp = <<10, 0, 20, 0, 30, 0, 40, 0>>
    /\ roiRet.roi = <<10, 20, 30, 40>>


\* C11: set sends min_y, max_y, min_x, max_x as parameters 1 to 4, the order
\* get decodes; over a channel that keeps the parameters as 16-bit words a
\* get after set(roi) returns each field of roi as a 16-bit value in its own
\* place, which is roi itself whenever its fields are 16-bit values.
C11_RoiRoundTrip ==
    hwRoi.pc = "got" =>
      LET r == hwRoi.last IN
      /\ hwRoi.ret.status = "ok"
      /\ hwRoi.ret.roi = <<Word16(r.min_y), Word16(r.max_y),
                           Word16(r.min_x), Word16(r.max_x)>>
      /\ (\A v \in {r.min_y, r.max_y, r.min_x, r.max_x} : v \in 0..65535) =>
           hwRoi.ret.roi = <<r.min_y, r.max_y, r.min_x, r.max_x>>

\* a ROI with four different 16-bit fields came back as set
C11_Witness ==
    /\ hwRoi.pc = "got"
    /\ hwRoi.last = Roi(0, 300, 7, 300)
    /\ hwRoi.ret.roi = <<0, 300, 7, 300>>


\* C12: on the software-backed controller a get leaves _roi and the
\* mechanism's ROI as they were and returns the zero rectangle before any
\* set, else the ROI of the most recent successful set; as long as no set
\* has failed that ROI is also the one last forwarded to the mechanism.
C12_SoftwareRoiRoundTrip ==
    [][ /\ swRoi'.pc = "got" =>
             /\ swRoi'.roi = swRoi.roi /\ swRoi'.ae = swRoi.ae
             /\ swRoi'.ret = IF swRoi.wasSet THEN swRoi.last ELSE ZeroRoi
        /\ (swRoi'.wasSet /\ swRoi'.clean) =>
             (swRoi'.roi = swRoi'.last /\ swRoi'.ae = swRoi'.last) ]_vars

\* a get returned the ROI that was set and forwarded
C12_Witness ==
    /\ swRoi.pc = "got" /\ swRoi.clean
    /\ swRoi.ret = Roi(5, 9, 0, 9)
    /\ swRoi.ae = Roi(5, 9, 0, 9)


KnownFaults ==
    {<<hot_laser_power_reduce, "Hot laser power reduce">>,
     <<hot_laser_disable, "Hot laser disable">>,
     <<flag_B_laser_disable, "Flag B laser disable">>}

\* C13: every decoded notification has category hardware-error and the
\* input as raw code; 0 gives severity error and "Success", a known fault
\* code severity error and its own message, any other code severity none
\* and "Unknown error!"; decoding touches nothing but its result.
C13_DecodeIsTotal ==
    [][ note' # note =>
          LET v == note'.value
              n == note'.out IN
          /\ note'.status = "decoded"
          /\ n.category = "HARDWARE_ERROR" /\ n.raw_code = v
          /\ v = 0 => (n.severity = "ERROR" /\ n.description = "Success")
          /\ \A k \in KnownFaults :
               v = k[1] => (n.severity = "ERROR" /\ n.description = k[2])
          /\ (v # 0 /\ \A k \in KnownFaults : v # k[1]) =>
               (n.severity = "NONE" /\ n.description = "Unknown error!")
          /\ UNCHANGED <<dev, calls, hist, thr, mtx, roiRet, hwRoi, roiThr,
                         swRoi, mdRet>> ]_vars

\* the unrecognised code 9999 of the decoding example
C13_Witness ==
    /\ note.value = 9999
    /\ note.out = Notification("NONE", 9999, "Unknown error!")


ExtrinsicsEntries(left, toRight) ==
    {e \in hist : /\ e.op = "get_extrinsics" /\ e.ret.status = "ok"
                  /\ IF toRight
                     THEN e.args.from = left /\ e.args.to = "INFRARED2"
                     ELSE e.args.from = "INFRARED2" /\ e.args.to = left}

Negated(t) == <<0 - t[1], 0 - t[2], 0 - t[3]>>

\* C14: on sub-device 0, with one coefficients table, the extrinsics from a
\* left stream to INFRARED2 have the translation (+baseline, 0, 0) in units
\* of the scale, the ones from INFRARED2 to that left stream its exact
\* negation, and both have the identity rotation.
C14_ExtrinsicsAreNegations ==
    LET b == TableBaseline(dev[1].lazy["coefficients"].id) IN
    \A left \in {"DEPTH", "INFRARED"} :
      /\ \A e \in ExtrinsicsEntries(left, TRUE) :
           e.ret.val = Extrinsics(IdentityRotation, <<b, 0, 0>>)
      /\ \A e \in ExtrinsicsEntries(left, FALSE) :
           e.ret.val = Extrinsics(IdentityRotation, <<0 - b, 0, 0>>)
      /\ \A e1 \in ExtrinsicsEntries(left, TRUE) :
           \A e2 \in ExtrinsicsEntries(left, FALSE) :
             /\ e2.ret.val[2] = Negated(e1.ret.val[2])
             /\ e2.ret.val[1] = e1.ret.val[1]

\* both directions between DEPTH and INFRARED2 were asked with table 2
C14_Witness ==
    /\ dev[1].lazy["coefficients"].id = 2
    /\ \E e \in ExtrinsicsEntries("DEPTH", TRUE) : e.ret.val[2] = <<55, 0, 0>>
    /\ \E e \in ExtrinsicsEntries("DEPTH", FALSE) : e.ret.val[2] = <<-55, 0, 0>>


RawTableLazies == {"coefficients", "fisheye_intrinsics", "fisheye_extrinsics"}

\* C15: a raw table read never hands back a response that is shorter than
\* the table header: such a response is an error of the read, as a failure
\* of the channel is.
C15_RawTableNeverShort ==
    \A d \in DeviceIds : \A L \in RawTableLazies :
      /\ dev[d].lazy[L].st = "ok" => dev[d].lazy[L].kind # "short"
      /\ dev[d].lazy[L].st = "failed" =>
           dev[d].lazy[L].kind \in {"calib_transport", "calib_short"}


\* the mode whose layout the frames of an endpoint carry
ModeOfEndpoint(ep) == IF ep = "fisheye" THEN "fisheye" ELSE "depth"

----------------------------------------------------------------------------
(* Properties of the info records, the poses and the fisheye controls *)

DescriptiveKeys ==
    {"DEVICE_NAME", "MODULE_NAME", "DEVICE_SERIAL_NUMBER",
     "CAMERA_FIRMWARE_VERSION", "DEVICE_LOCATION", "PRODUCT_ID",
     "IS_CAMERA_LOCKED"}

\* C17: after a successful construction every endpoint index has an info
\* record, and every record carries name, module label, serial, firmware
\* version, device path, product id and the locked flag.
C17_InfoOnEveryEndpoint ==
    \A d \in DeviceIds :
      dev[d].phase = "ready" =>
        /\ \A i \in 0..(EndpointsCount(dev[d]) - 1) :
             \E r \in dev[d].info : r.idx = i
        /\ \A r \in dev[d].info :
             /\ r.idx \in 0..(EndpointsCount(dev[d]) - 1)
             /\ DescriptiveKeys \subseteq r.keys

\* C18: after a successful construction the pose of the depth sensor is the
\* identity, and the pose of every other endpoint is the one computed by
\* get_device_position from the calibration tables.
C18_PosesAreComputed ==
    \A d \in DeviceIds :
      dev[d].phase = "ready" =>
        \A i \in 1..EndpointsCount(dev[d]) :
          LET ep == dev[d].endpoints[i] IN
          /\ \E p \in dev[d].pose : p[1] = ep
          /\ \A p \in dev[d].pose :
               p[1] = ep =>
                 p[2] = IF ep = "depth" THEN "identity" ELSE "get_device_position"

FisheyeOptions(s) == {[id |-> o.id, kind |-> o.kind] : o \in {x \in s.options : x.ep = "fisheye"}}

AutoExposureConfiguration ==
    {[id |-> "ENABLE_AUTO_EXPOSURE", kind |-> "enable_auto_exposure"],
     [id |-> "AUTO_EXPOSURE_MODE", kind |-> "auto_exposure_mode"],
     [id |-> "AUTO_EXPOSURE_ANTIFLICKER_RATE",
      kind |-> "auto_exposure_antiflicker_rate"],
     [id |-> "GAIN", kind |-> "auto_disabling"],
     [id |-> "EXPOSURE", kind |-> "auto_disabling"]}

ManualConfiguration ==
    {[id |-> "GAIN", kind |-> "pu"], [id |-> "EXPOSURE", kind |-> "xu"]}

\* C19: a constructed fisheye product has, from firmware 5.6.3.0 on, the
\* auto-exposure options with auto-disabling gain and exposure and the
\* software-backed ROI method on its fisheye endpoint, and below 5.6.3.0
\* the manual gain and exposure options and no ROI method; nothing but the
\* firmware version selects between the two.
C19_FisheyeConfiguration ==
    \A d \in DeviceIds :
      (dev[d].phase = "ready" /\ dev[d].pid \in FisheyePids) =>
        IF FwGE(dev[d].fw, <<5, 6, 3, 0>>)
        THEN /\ FisheyeOptions(dev[d]) = AutoExposureConfiguration
             /\ <<"fisheye", "fisheye_auto_exposure_roi_method">>
                  \in dev[d].roi_method
        ELSE /\ FisheyeOptions(dev[d]) = ManualConfiguration
             /\ \A p \in dev[d].roi_method : p[1] # "fisheye"

\* an RS420_MM with exactly 5.6.3.0 got the auto-exposure configuration
C19_Witness ==
    /\ dev[1].phase = "ready" /\ dev[1].pid = "RS420_MM"
    /\ dev[1].fw = <<5, 6, 3, 0>>
    /\ HasOption(dev[1], "fisheye", "AUTO_EXPOSURE_MODE")
    /\ <<"fisheye", "fisheye_auto_exposure_roi_method">> \in dev[1].roi_method


\* C20: a finished set or get on the hardware-backed controller has sent
\* exactly one command, and whatever the interleaving of the callers a get
\* returns the four fields of one single set or the initial ROI of the
\* hardware, which is always what the hardware holds.
C20_HwRoiNoMixture ==
    /\ hwRoi.store \in {InitialHwRoi} \cup hwRoi.ever
    /\ \A t \in Threads :
         /\ roiThr[t].pc = "done" => roiThr[t].sent = 1
         /\ roiThr[t].pc = "send" => roiThr[t].sent = 0
         /\ roiThr[t].ret.status = "ok" =>
              /\ roiThr[t].op = "get"
              /\ roiThr[t].ret.roi \in {InitialHwRoi} \cup hwRoi.ever

\* two different ROIs were set, the hardware holds the second, and a get
\* that was sent between the two sets returned the first
C20_Witness ==
    /\ hwRoi.ever = {<<1, 2, 3, 4>>, <<5, 6, 7, 8>>}
    /\ hwRoi.store = <<5, 6, 7, 8>>
    /\ roiThr[1].pc = "done" /\ roiThr[1].op = "set"
    /\ roiThr[2].pc = "done" /\ roiThr[2].op = "get"
    /\ roiThr[2].ret.roi = <<1, 2, 3, 4>>


----------------------------------------------------------------------------
(* Properties of the motion-module pose and of the software-backed ROI *)

\* C21: the pose of the motion module is the fisheye pose, the inverse of
\* the fisheye extrinsics, composed with a pose whose orientation is, in
\* order, rot(0,0), rot(1,0), rot(2,0), rot(1,0), rot(1,1), rot(2,1),
\* rot(0,2), rot(1,2), rot(2,2) of the imu_to_fisheye entry; rot(0,1) has
\* no part in it, so two rotations that differ only in entry (0,1) give the
\* same pose.
C21_PoseIgnoresRot01 ==
    posRet.status = "computed" =>
        LET r == posRet.rot
            built == [orientation |-> <<r[1], r[2], r[3], r[2], r[5], r[6],
                                        r[7], r[8], r[9]>>,
                      position |-> posRet.trans]
        IN  /\ posRet.fe = Inverse(posRet.extr)
            /\ posRet.ret = Compose(posRet.fe, built)
            /\ \A k \in (1..9) \ {4} : posRet.other[k] = r[k]
            /\ posRet.retOther = posRet.ret

\* two rotations with different entries (0,1), both different from entry
\* (1,0), under turned fisheye extrinsics, gave one pose
C21_Witness ==
    /\ posRet.status = "computed"
    /\ posRet.extr # IdentityPose
    /\ posRet.rot[4] = 1 /\ posRet.other[4] = -1 /\ posRet.rot[2] = 0
    /\ posRet.trans = <<4, 5, 6>>
    /\ posRet.ret = posRet.retOther


\* C22: whenever get() is called on the software-backed controller after
\* every concurrent set has returned, the ROI it returns is the ROI last
\* delivered to the auto-exposure mechanism.
C22_CacheAgreesWithMechanism ==
    swRoi.pc = "got" => swRoi.ret = swRoi.ae

\* C23: a set of the software-backed controller whose forwarding to the
\* auto-exposure mechanism fails leaves _roi as it was, and the get that
\* follows it returns the ROI of the last set that succeeded, or the zero
\* rectangle if none did.
C23_FailedSetKeepsCache ==
    [][ /\ swRoi'.pc = "set_failed" =>
             /\ swRoi'.roi = swRoi.roi
             /\ swRoi'.roi = IF swRoi.wasSet THEN swRoi.last ELSE ZeroRoi
        /\ (swRoi.pc = "set_failed" /\ swRoi'.pc = "got") =>
             /\ swRoi'.ret = swRoi.roi
             /\ swRoi'.ret = IF swRoi.wasSet THEN swRoi.last ELSE ZeroRoi
      ]_vars

\* a get returned the ROI of the earlier set although the mechanism had
\* taken the ROI of a later set before that set failed
C23_Witness ==
    /\ swRoi.pc = "got" /\ ~swRoi.clean /\ swRoi.wasSet
    /\ swRoi.ret = Roi(5, 9, 0, 9)
    /\ swRoi.ae = Roi(0, 9, 5, 9)

====
